---------------------------- MODULE Spec2Model ----------------------------
(***************************************************************************)
(* A model of the SAGA control core: the operation-mode controller         *)
(* (saga/mode_controller.py), the termination checker and the per-run      *)
(* stage loop that consults both.                                          *)
(*                                                                         *)
(* Strings that the code inspects character by character (stage names,     *)
(* which go through str.lower()) are sequences of one-character strings.   *)
(* Python objects that can be shared by reference (the sets of review      *)
(* stages) live in a heap; a controller holds a reference into it.         *)
(***************************************************************************)
EXTENDS Integers, Sequences, FiniteSets, TLC

----------------------------------------------------------------------------
(* Strings and str.lower()                                                 *)

UpperChars == <<"A","B","C","D","E","F","G","H","I","J","K","L","M",
                "N","O","P","Q","R","S","T","U","V","W","X","Y","Z">>

LowerChars == <<"a","b","c","d","e","f","g","h","i","j","k","l","m",
                "n","o","p","q","r","s","t","u","v","w","x","y","z">>

lower_char(ch) ==
    IF \E i \in DOMAIN UpperChars : UpperChars[i] = ch
    THEN LowerChars[CHOOSE i \in DOMAIN UpperChars : UpperChars[i] = ch]
    ELSE ch

\* str.lower(): every cased character replaced by its lowercase form.
lower(s) == [i \in 1..Len(s) |-> lower_char(s[i])]

Range(q) == {q[i] : i \in DOMAIN q}

\* Every ordering of a finite set as a list (the orders list(a_set) can give).
RECURSIVE Orderings(_)
Orderings(S) ==
    IF S = {} THEN {<<>>}
    ELSE UNION {{<<x>> \o p : p \in Orderings(S \ {x})} : x \in S}

\* The stage names of the run, as the code writes them.
analyze   == <<"a","n","a","l","y","z","e">>
plan      == <<"p","l","a","n">>
implement == <<"i","m","p","l","e","m","e","n","t">>
optimize  == <<"o","p","t","i","m","i","z","e">>

\* Case variants a caller may pass.
Analyze_Cap  == <<"A","n","a","l","y","z","e">>
OPTIMIZE_Up  == <<"O","P","T","I","M","I","Z","E">>

\* The stage names given to add_review_stage / remove_review_stage /
\* requires_human_review in this model.
StageArgs == {analyze, Analyze_Cap, optimize, OPTIMIZE_Up}

----------------------------------------------------------------------------
(* OperationMode                                                           *)

Modes == {"CO_PILOT", "SEMI_PILOT", "AUTOPILOT"}

\* Enum member -> its value.
OperationMode_value(m) ==
    CASE m = "CO_PILOT"   -> "co-pilot"
      [] m = "SEMI_PILOT" -> "semi-pilot"
      [] m = "AUTOPILOT"  -> "autopilot"

\* OperationMode(value): lookup by value; an unknown value raises ValueError.
OperationMode(v) ==
    IF \E m \in Modes : OperationMode_value(m) = v
    THEN [ok |-> TRUE,  mode |-> CHOOSE m \in Modes : OperationMode_value(m) = v,
          raised |-> "none"]
    ELSE [ok |-> FALSE, mode |-> "none", raised |-> "ValueError"]

\* The default of ModeController.__init__'s default_mode parameter.
DefaultMode == "SEMI_PILOT"

----------------------------------------------------------------------------
(* The heap of set objects                                                 *)

Ctls == {1, 2}                 \* controller variables of the program
NoCtl == [mode |-> "none", review_stages |-> 0]

\* MODE_REVIEW_STAGES: mode -> reference to its set object.
MODE_REVIEW_STAGES ==
    [m \in Modes |-> CASE m = "CO_PILOT" -> 1 [] m = "SEMI_PILOT" -> 2 [] m = "AUTOPILOT" -> 3]

\* The table with "plan" also reviewed in semi-pilot.
TableLiteral_semi_reviews_plan(m) ==
    CASE m = "CO_PILOT"   -> {analyze, plan, implement, optimize}
      [] m = "SEMI_PILOT" -> {analyze, plan}
      [] m = "AUTOPILOT"  -> {}

\* The set literals of MODE_REVIEW_STAGES, as written in the source.
TableLiteral(m) ==
    CASE m = "CO_PILOT"   -> {analyze, plan, implement, optimize}
      [] m = "SEMI_PILOT" -> {analyze}
      [] m = "AUTOPILOT"  -> {}

\* The object a controller variable's own set lives in.  A copy made for
\* controller c is a new object; the one c held before is garbage by then.
Cell(c) == 3 + c

Objs == 1..(3 + Cardinality(Ctls))

VARIABLES
    heap,      \* object reference -> the set of strings it holds
    ctl,       \* controller variable -> [mode, review_stages (a reference)], or NoCtl
    ret,       \* outcome of the last call: "ok" or the exception it raised
    last       \* the last operation and its arguments (history variable):
               \* mode is the enum member given to __init__ / switch_mode, or
               \* the "mode" entry given to from_dict (has_mode: it had one);
               \* src is the controller whose to_dict() from_dict was given;
               \* edited: switch_mode found the set differing from the default

mcvars == <<heap, ctl, ret, last>>

VARIABLES
    pc,             \* the run's state: a stage, or "TERMINATED"
    phase,          \* position at that stage: "gate", "suspended", "ready", "check", "done"
    iteration,      \* state.iteration: iterations completed
    score_history,  \* state.score_history: best score of each completed iteration
    stop_result,    \* what the last should_stop call returned ("unset" before any)
    reason,         \* what the last get_termination_reason call returned ("" before any)
    executed,       \* the stage that executed last ("NONE" before any; history variable)
    review          \* the review of the current stage and the last signal (history variable)

runvars == <<pc, phase, iteration, score_history, stop_result, reason, executed, review>>

VARIABLES
    implementer,    \* the AdvancedImplementer: [config, llm_client, use_llm]
    impl_state,     \* the state dictionary handed to AdvancedImplementer.run
    result          \* what run returned (NotCalled before the call)

implvars == <<implementer, impl_state, result>>

VARIABLES
    client,         \* the generator's language-model client (NoClient: EvoGenerator)
    population,     \* the population handed to generate
    num_candidates, \* the number of candidates asked for
    generated,      \* what generate returned (NotCalled before the call)
    llm_calls       \* client calls issued by that invocation (history variable)

genvars == <<client, population, num_candidates, generated, llm_calls>>

VARIABLES
    candidates,     \* the candidates handed to ParetoSelector.select
    scores,         \* their score vectors
    weights,        \* the weights of the objectives
    top_k,          \* the number of pairs asked for
    selected        \* what select returned (NotCalled before the call)

selvars == <<candidates, scores, weights, top_k, selected>>

VARIABLES
    router,         \* the PromptRouter: [_strategies]
    keywords,       \* the keywords of the last get_strategy call
    strategy,       \* the strategy that call returned (NotCalled before it)
    raw_output,     \* the model output handed to strategy.parse_candidates
    expected_n,     \* the number of candidates expected of it
    parsed          \* what parse_candidates returned (NotCalled before the call)

routevars == <<router, keywords, strategy, raw_output, expected_n, parsed>>

\* The variables of the selection and prompt-routing modules.
searchvars == <<selvars, routevars>>

\* The variables of the code-generation, candidate-generation, selection and
\* prompt-routing modules.
extvars == <<implvars, genvars, searchvars>>

vars == <<heap, ctl, ret, last, pc, phase, iteration, score_history, stop_result,
          reason, executed, review, implementer, impl_state, result, client,
          population, num_candidates, generated, llm_calls, candidates, scores,
          weights, top_k, selected, router, keywords, strategy, raw_output,
          expected_n, parsed>>

NoOp == [op |-> "none", c |-> 0, mode |-> "", stage |-> <<>>,
         has_mode |-> FALSE, src |-> 0, edited |-> FALSE, defaulted |-> FALSE]

Constructed(c) == ctl[c] # NoCtl

\* self._review_stages of controller c.
review_stages(c) == heap[ctl[c].review_stages]

----------------------------------------------------------------------------
(* ModeController                                                          *)

\* No copy: the controller holds the set object of the table itself.
copy_aliases(ref, c) == ref

\* set.copy(): a new object (here: the cell of the controller it is made for).
copy(ref, c) == Cell(c)

__init__(c, default_mode, defaulted) ==
    LET r == copy(MODE_REVIEW_STAGES[default_mode], c) IN
    /\ heap' = [heap EXCEPT ![r] = heap[MODE_REVIEW_STAGES[default_mode]]]
    /\ ctl' = [ctl EXCEPT ![c] = [mode |-> default_mode, review_stages |-> r]]
    /\ ret' = "ok"
    /\ last' = [NoOp EXCEPT !.op = "__init__", !.c = c, !.mode = default_mode,
                            !.defaulted = defaulted]

\* switch_mode that only replaces the mode.
switch_mode_keeps_stages(c, new_mode) ==
    /\ Constructed(c)
    /\ ctl' = [ctl EXCEPT ![c].mode = new_mode]
    /\ heap' = heap
    /\ ret' = "ok"
    /\ last' = [NoOp EXCEPT !.op = "switch_mode", !.c = c, !.mode = new_mode,
                  !.edited = (review_stages(c) # heap[MODE_REVIEW_STAGES[ctl[c].mode]])]

switch_mode(c, new_mode) ==
    LET r == copy(MODE_REVIEW_STAGES[new_mode], c) IN
    /\ Constructed(c)
    /\ heap' = [heap EXCEPT ![r] = heap[MODE_REVIEW_STAGES[new_mode]]]
    /\ ctl' = [ctl EXCEPT ![c] = [mode |-> new_mode, review_stages |-> r]]
    /\ ret' = "ok"
    /\ last' = [NoOp EXCEPT !.op = "switch_mode", !.c = c, !.mode = new_mode,
                  !.edited = (review_stages(c) # heap[MODE_REVIEW_STAGES[ctl[c].mode]])]

\* requires_human_review that asks the mode's default set, not the
\* controller's own.
requires_human_review_by_mode(c, stage) ==
    lower(stage) \in heap[MODE_REVIEW_STAGES[ctl[c].mode]]

requires_human_review(c, stage) == lower(stage) \in review_stages(c)

\* add_review_stage that stores the stage as given.
add_review_stage_exact(c, stage) ==
    /\ Constructed(c)
    /\ heap' = [heap EXCEPT ![ctl[c].review_stages] = @ \cup {stage}]
    /\ UNCHANGED ctl
    /\ ret' = "ok"
    /\ last' = [NoOp EXCEPT !.op = "add_review_stage", !.c = c, !.stage = stage]

add_review_stage(c, stage) ==
    /\ Constructed(c)
    /\ heap' = [heap EXCEPT ![ctl[c].review_stages] = @ \cup {lower(stage)}]
    /\ UNCHANGED ctl
    /\ ret' = "ok"
    /\ last' = [NoOp EXCEPT !.op = "add_review_stage", !.c = c, !.stage = stage]

remove_review_stage(c, stage) ==
    /\ Constructed(c)
    /\ heap' = [heap EXCEPT ![ctl[c].review_stages] = @ \ {lower(stage)}]
    /\ UNCHANGED ctl
    /\ ret' = "ok"
    /\ last' = [NoOp EXCEPT !.op = "remove_review_stage", !.c = c, !.stage = stage]

\* dict.get(key, default)
dict_get(d, key, default) == IF key \in DOMAIN d THEN d[key] ELSE default

\* to_dict(): the dictionaries it can return; list(a_set) fixes no order.
to_dict(c) ==
    { ("mode" :> OperationMode_value(ctl[c].mode)) @@ ("review_stages" :> q) :
        q \in Orderings(review_stages(c)) }

\* from_dict that leaves the restored controller with its mode's default set.
from_dict_drops_stages(c, data, src) ==
    LET m == OperationMode(dict_get(data, "mode", "semi-pilot"))
        r == copy(MODE_REVIEW_STAGES[m.mode], c)
        given == [NoOp EXCEPT !.op = "from_dict", !.c = c, !.src = src,
                     !.has_mode = ("mode" \in DOMAIN data),
                     !.mode = dict_get(data, "mode", "")]
    IN  /\ m.ok
        /\ heap' = [heap EXCEPT ![r] = heap[MODE_REVIEW_STAGES[m.mode]]]
        /\ ctl' = [ctl EXCEPT ![c] = [mode |-> m.mode, review_stages |-> r]]
        /\ ret' = "ok"
        /\ last' = given

\* from_dict(data), its result bound to controller variable c.  src is the
\* controller whose to_dict() gave data, 0 for data written by hand.
from_dict(c, data, src) ==
    LET m == OperationMode(dict_get(data, "mode", "semi-pilot"))
        given == [NoOp EXCEPT !.op = "from_dict", !.c = c, !.src = src,
                     !.has_mode = ("mode" \in DOMAIN data),
                     !.mode = dict_get(data, "mode", "")]
    IN  IF ~m.ok
        THEN \* OperationMode(...) raised: no controller is returned
             /\ ret' = m.raised
             /\ last' = given
             /\ UNCHANGED <<heap, ctl>>
        ELSE LET r0 == copy(MODE_REVIEW_STAGES[m.mode], c)   \* cls(default_mode=mode)
                 h0 == [heap EXCEPT ![r0] = heap[MODE_REVIEW_STAGES[m.mode]]]
             IN  /\ heap' = IF "review_stages" \in DOMAIN data
                            THEN [h0 EXCEPT ![Cell(c)] = Range(data["review_stages"])]
                            ELSE h0
                 /\ ctl' = [ctl EXCEPT ![c] =
                              [mode |-> m.mode,
                               review_stages |-> IF "review_stages" \in DOMAIN data
                                                 THEN Cell(c) ELSE r0]]
                 /\ ret' = "ok"
                 /\ last' = given

----------------------------------------------------------------------------
(* Serialized states written by hand (section 6 of the wire format):       *)
(* any mode string, any list of strings, either key possibly missing.      *)

HandData ==
    { ("mode" :> "co-pilot") @@ ("review_stages" :> <<Analyze_Cap>>),
      ("mode" :> "autopilot") @@ ("review_stages" :> <<plan, plan>>),
      ("mode" :> "turbo") @@ ("review_stages" :> <<analyze>>),
      ("mode" :> "AUTOPILOT") @@ ("review_stages" :> <<>>),
      ("mode" :> "co-pilot"),
      ("review_stages" :> <<optimize>>),
      <<>> }

----------------------------------------------------------------------------
(* TerminationChecker (saga/termination.py), from section 4.6              *)

\* TerminationConfig of the model.  Scores are integers: one unit is the
\* resolution of the score scale, and convergence_eps is given in units.
max_iters == 3
convergence_eps == 1
convergence_patience == 2

MaxScore == 2
MaxHistory == 3

Scores == 0..MaxScore

Abs(x) == IF x < 0 THEN -x ELSE x

\* The trailing n entries of a list (h[-n:]).
Trailing(h, n) == SubSeq(h, Len(h) - n + 1, Len(h))

\* _is_converged that compares every entry of the history, not the window.
_is_converged_whole_history(h) ==
    /\ Len(h) >= convergence_patience
    /\ \A i, j \in DOMAIN h : Abs(h[i] - h[j]) <= convergence_eps

_is_converged(h) ==
    /\ Len(h) >= convergence_patience
    /\ LET recent == Trailing(h, convergence_patience) IN
       \A i, j \in DOMAIN recent : Abs(recent[i] - recent[j]) <= convergence_eps

\* should_stop that lets the iteration at the limit run.
should_stop_past_limit(state) ==
    \/ state.iteration > max_iters
    \/ _is_converged(state.score_history)

should_stop(state) ==
    \/ state.iteration >= max_iters
    \/ _is_converged(state.score_history)

get_termination_reason(state) ==
    IF state.iteration >= max_iters THEN "max iterations"
    ELSE IF _is_converged(state.score_history) THEN "converged"
    ELSE "not terminated"

\* The state object handed to the checker.
State == [iteration |-> iteration, score_history |-> score_history]

BoolStr(b) == IF b THEN "True" ELSE "False"

----------------------------------------------------------------------------
(* The run: ANALYZE -> PLAN -> IMPLEMENT -> OPTIMIZE -> (ANALYZE | TERMINATED) *)

Stages == {"ANALYZE", "PLAN", "IMPLEMENT", "OPTIMIZE"}

\* A stage order that goes from PLAN straight to OPTIMIZE.
NextStage_skips_implement(s) ==
    CASE s = "ANALYZE"   -> "PLAN"
      [] s = "PLAN"      -> "OPTIMIZE"
      [] s = "IMPLEMENT" -> "OPTIMIZE"
      [] s = "OPTIMIZE"  -> "ANALYZE"

\* A stage order that goes from IMPLEMENT back to ANALYZE.
NextStage_never_optimizes(s) ==
    CASE s = "ANALYZE"   -> "PLAN"
      [] s = "PLAN"      -> "IMPLEMENT"
      [] s = "IMPLEMENT" -> "ANALYZE"
      [] s = "OPTIMIZE"  -> "ANALYZE"

NextStage(s) ==
    CASE s = "ANALYZE"   -> "PLAN"
      [] s = "PLAN"      -> "IMPLEMENT"
      [] s = "IMPLEMENT" -> "OPTIMIZE"
      [] s = "OPTIMIZE"  -> "ANALYZE"

\* The name under which the loop asks the controller about a stage.
StageName(s) ==
    CASE s = "ANALYZE"   -> analyze
      [] s = "PLAN"      -> plan
      [] s = "IMPLEMENT" -> implement
      [] s = "OPTIMIZE"  -> optimize

\* The controller the run owns.
RunCtl == CHOOSE c \in Ctls : \A d \in Ctls : c <= d

NoReview == [required |-> FALSE, signal |-> "none", aborted |-> FALSE]

\* Before a stage: ask the controller; suspend if it wants a review.
Gate ==
    /\ pc \in Stages
    /\ phase = "gate"
    /\ LET wanted == requires_human_review(RunCtl, StageName(pc)) IN
       /\ phase' = IF wanted THEN "suspended" ELSE "ready"
       /\ review' = [review EXCEPT !.required = wanted, !.signal = "none"]
    /\ UNCHANGED <<pc, iteration, score_history, stop_result, reason, executed>>
    /\ UNCHANGED <<mcvars, extvars>>

\* The external approve / edit signal resumes the suspended run.
Resume(signal) ==
    /\ phase = "suspended"
    /\ phase' = "ready"
    /\ review' = [review EXCEPT !.signal = signal]
    /\ UNCHANGED <<pc, iteration, score_history, stop_result, reason, executed>>
    /\ UNCHANGED <<mcvars, extvars>>

\* Cancel that ends the run.
CancelTerminates ==
    /\ phase = "suspended"
    /\ pc' = "TERMINATED"
    /\ phase' = "done"
    /\ review' = [required |-> FALSE, signal |-> "cancel", aborted |-> TRUE]
    /\ UNCHANGED <<iteration, score_history, stop_result, reason, executed>>
    /\ UNCHANGED <<mcvars, extvars>>

\* Cancelling the pending review aborts the iteration: its remaining stages
\* do not run, and the run is not terminated.
Cancel ==
    /\ phase = "suspended"
    /\ pc' = "ANALYZE"
    /\ phase' = "gate"
    /\ review' = [required |-> FALSE, signal |-> "cancel", aborted |-> TRUE]
    /\ UNCHANGED <<iteration, score_history, stop_result, reason, executed>>
    /\ UNCHANGED <<mcvars, extvars>>

\* The stage executes.  OPTIMIZE completes the iteration: it records the
\* iteration's best score and hands over to the termination check.
RunStage ==
    /\ pc \in Stages
    /\ phase = "ready"
    /\ executed' = pc
    /\ review' = NoReview
    /\ IF pc = "OPTIMIZE"
       THEN /\ \E x \in Scores : score_history' = Append(score_history, x)
            /\ iteration' = iteration + 1
            /\ phase' = "check"
            /\ pc' = pc
       ELSE /\ pc' = NextStage(pc)
            /\ phase' = "gate"
            /\ UNCHANGED <<iteration, score_history>>
    /\ UNCHANGED <<stop_result, reason>>
    /\ UNCHANGED <<mcvars, extvars>>

\* After OPTIMIZE: stop, or loop to ANALYZE.
CheckTermination ==
    /\ phase = "check"
    /\ stop_result' = BoolStr(should_stop(State))
    /\ IF should_stop(State)
       THEN /\ pc' = "TERMINATED"
            /\ phase' = "done"
            /\ reason' = get_termination_reason(State)
       ELSE /\ pc' = NextStage(pc)
            /\ phase' = "gate"
            /\ UNCHANGED reason
    /\ UNCHANGED <<iteration, score_history, executed, review>>
    /\ UNCHANGED <<mcvars, extvars>>

----------------------------------------------------------------------------
(* Text: source code, model responses, candidates                          *)

\* A text is a sequence of atoms (words, marks, statements); atoms are cut so
\* that every pattern the program searches for is a sequence of whole atoms.
NL == "\n"

\* text.find(pat) + 1: where pat first occurs in text, 0 if nowhere.
Find(text, pat) ==
    LET at == {i \in 1..(Len(text) - Len(pat) + 1) :
                  SubSeq(text, i, i + Len(pat) - 1) = pat}
    IN IF at = {} THEN 0 ELSE CHOOSE i \in at : \A j \in at : i <= j

\* pat in text
Contains(text, pat) == Find(text, pat) # 0

\* text.split(sep): the pieces between the occurrences of sep, left to right.
RECURSIVE split(_, _)
split(text, sep) ==
    LET i == Find(text, sep) IN
    IF i = 0 THEN <<text>>
    ELSE <<SubSeq(text, 1, i - 1)>>
         \o split(SubSeq(text, i + Len(sep), Len(text)), sep)

\* text.split(sep, 1)
split_once(text, sep) ==
    LET i == Find(text, sep) IN
    IF i = 0 THEN <<text>>
    ELSE <<SubSeq(text, 1, i - 1), SubSeq(text, i + Len(sep), Len(text))>>

\* text.strip()
strip(text) ==
    LET solid == {i \in DOMAIN text : text[i] \notin {" ", NL}} IN
    IF solid = {} THEN <<>>
    ELSE SubSeq(text, CHOOSE i \in solid : \A j \in solid : i <= j,
                      CHOOSE i \in solid : \A j \in solid : i >= j)

\* text.startswith(pat)
startswith(text, pat) ==
    Len(text) >= Len(pat) /\ SubSeq(text, 1, Len(pat)) = pat

\* str(i) for a small natural number.
str(i) == << <<"0", "1", "2", "3", "4", "5", "6", "7", "8", "9">>[i + 1] >>

----------------------------------------------------------------------------
(* Python sources as texts: what compile() accepts                         *)

\* The mark that opens and closes a Markdown code block (three backticks).
Fence == "[fence]"

\* Atoms that are no Python: prose, and the fence mark.
Prose == {"Here is the code:", "Sorry, I cannot help.", "It never calls", Fence}

\* Atom i of code lies in a comment: a "#" before it on the same line.
InComment(code, i) ==
    \E j \in 1..i : code[j] = "#" /\ \A k \in j..i : code[k] # NL

\* Brackets open after atom i, comments not counted.
Depth(code, i) ==
    Cardinality({j \in 1..i : code[j] = "(" /\ ~InComment(code, j)})
    - Cardinality({j \in 1..i : code[j] = ")" /\ ~InComment(code, j)})

\* compile(code, "<scoring>", "exec") raises no SyntaxError: outside comments
\* every atom is Python and the brackets match.
Compiles(code) ==
    /\ \A i \in DOMAIN code : code[i] \in Prose => InComment(code, i)
    /\ \A i \in DOMAIN code : Depth(code, i) >= 0
    /\ Depth(code, Len(code)) = 0

----------------------------------------------------------------------------
(* The language-model client                                               *)

\* A language-model client: call(prompt) raises, or returns a response of
\* one of these shapes:
\*   "None"          not a dictionary
\*   "{}"            a dictionary without "choices"
\*   "choices=[]"    an empty list of choices
\*   "content=None"  a chat completion whose content is no string
\*   "chat"          a chat completion whose content is text
NoClient == [present |-> FALSE]

Client(raises, shape, text) ==
    [present |-> TRUE, raises |-> raises, shape |-> shape, text |-> text]

MalformedShapes == {"None", "choices=[]", "content=None"}

----------------------------------------------------------------------------
(* AdvancedImplementer (saga/modules/advanced_implementer.py)              *)

\* Objective names.
length     == <<"length">>
keyword    == <<"keyword">>
similarity == <<"similarity">>
diversity  == <<"diversity">>
quality    == <<"quality">>
profile    == <<"pro", "file">>

\* use_llm as __init__ computes it.
AdvancedImplementer(config, llm_client) ==
    [config     |-> config,
     llm_client |-> llm_client,
     use_llm    |-> dict_get(config, "use_llm", FALSE) /\ llm_client # NoClient]

_length_scorer_template(idx, name) ==
    <<"#", "Score ">> \o str(idx) \o <<": ">> \o name \o
    <<NL, "target_len = context.get('target_length', 50)",
      NL, "len_score = 1.0 - min(abs(len(text) - target_len) / target_len, 1.0)",
      NL, "scores.append(max(0.0, len_score))">>

_keyword_scorer_template(idx, name) ==
    <<"#", "Score ">> \o str(idx) \o <<": ">> \o name \o
    <<NL, "if keywords:",
      NL, "matches = sum(1 for kw in keywords if kw.lower() in text.lower())",
      NL, "kw_score = matches / len(keywords)",
      NL, "else:",
      NL, "kw_score = 1.0",
      NL, "scores.append(kw_score)">>

_similarity_scorer_template(idx, name) ==
    <<"#", "Score ">> \o str(idx) \o <<": ">> \o name \o
    <<NL, "reference = context.get('reference', '')",
      NL, "if reference:",
      NL, "common = set(text.lower().split()) & set(reference.lower().split())",
      NL, "sim_score = len(common) / max(len(set(text.lower().split())), 1)",
      NL, "else:",
      NL, "sim_score = 0.5",
      NL, "scores.append(sim_score)">>

_diversity_scorer_template(idx, name) ==
    <<"#", "Score ">> \o str(idx) \o <<": ">> \o name \o
    <<NL, "words = text.split()",
      NL, "if words:",
      NL, "unique_ratio = len(set(words)) / len(words)",
      NL, "else:",
      NL, "unique_ratio = 0.0",
      NL, "scores.append(unique_ratio)">>

_generic_scorer_template(idx, name) ==
    <<"#", "Score ">> \o str(idx) \o <<": ">> \o name \o
    <<NL, "scores.append(0.5)", "#", "Default score for ">> \o name

\* self.scoring_templates.get(obj, self._generic_scorer_template)(idx, obj)
template_func(obj, idx) ==
    CASE obj = length     -> _length_scorer_template(idx, obj)
      [] obj = keyword    -> _keyword_scorer_template(idx, obj)
      [] obj = similarity -> _similarity_scorer_template(idx, obj)
      [] obj = diversity  -> _diversity_scorer_template(idx, obj)
      [] OTHER            -> _generic_scorer_template(idx, obj)

\* The parts of objectives i.. of the list, each wrapped as the loop wraps it.
RECURSIVE scorer_parts(_, _)
scorer_parts(objectives, i) ==
    IF i > Len(objectives) THEN <<>>
    ELSE <<"#", "Objective scoring", NL>> \o template_func(objectives[i], i - 1)
         \o <<NL, NL>> \o scorer_parts(objectives, i + 1)

_generate_from_templates(objectives, constraints) ==
    <<NL, "def score(text: str, context: dict) -> list:",
      NL, "'''Score a candidate text on multiple objectives.'''",
      NL, "scores = []",
      NL, "keywords = context.get('keywords', [])",
      NL, NL>>
    \o scorer_parts(objectives, 1)
    \o <<"return scores", NL>>

_fallback_scorer ==
    <<NL, "def score(text: str, context: dict) -> list:",
      NL, "'''Fallback scorer with basic metrics.'''",
      NL, "keywords = context.get('keywords', [])",
      NL, NL, "#", "Length score",
      NL, "len_score = min(len(text) / 100, 1.0)",
      NL, NL, "#", "Keyword score",
      NL, "if keywords:",
      NL, "kw_score = sum(1 for kw in keywords if kw.lower() in text.lower()) / len(keywords)",
      NL, "else:",
      NL, "kw_score = 1.0",
      NL, NL, "#", "Quality score (basic)",
      NL, "quality = 0.5",
      NL, NL, "return [len_score, kw_score, quality]", NL>>

\* The deny-list of _validate_code, in its order.
forbidden ==
    << <<"import", " ", "os">>, <<"import", " ", "sys">>,
       <<"import", " ", "subprocess">>,
       <<"open", "(">>, <<"exec", "(">>, <<"eval", "(">>,
       <<"__import__">>, <<"globals">>, <<"locals">>,
       <<"file">>, <<"input", "(">> >>

\* _validate_code without the deny-list.
_validate_code_compile_only(code) ==
    IF Compiles(code) THEN <<TRUE, <<"OK">>>> ELSE <<FALSE, <<"Syntax error: ">>>>

\* (is_valid, validation_msg)
_validate_code(code) ==
    LET hits == {k \in DOMAIN forbidden : Contains(code, forbidden[k])} IN
    IF hits # {}
    THEN <<FALSE, <<"Forbidden pattern: ">>
                  \o forbidden[CHOOSE k \in hits : \A h \in hits : k <= h]>>
    ELSE IF Compiles(code) THEN <<TRUE, <<"OK">>>>
    ELSE <<FALSE, <<"Syntax error: ">>>>

\* The client call and
\* response.get("choices", [{}])[0].get("message", {}).get("content", ""):
\* the exception raised ("" if none) and the content.
call_content(llm_client) ==
    CASE llm_client.raises                -> [raised |-> "Exception", raw |-> <<>>]
      [] llm_client.shape = "None"        -> [raised |-> "AttributeError", raw |-> <<>>]
      [] llm_client.shape = "choices=[]"  -> [raised |-> "IndexError", raw |-> <<>>]
      [] llm_client.shape = "content=None" -> [raised |-> "TypeError", raw |-> <<>>]
      [] llm_client.shape = "{}"          -> [raised |-> "", raw |-> <<>>]
      [] OTHER                            -> [raised |-> "", raw |-> llm_client.text]

\* The code block of a response, or all of it when it holds no fence.
extract_code(raw) ==
    strip(IF Contains(raw, <<Fence, "python">>)
          THEN split(split(raw, <<Fence, "python">>)[2], <<Fence>>)[1]
          ELSE IF Contains(raw, <<Fence>>)
          THEN split(split(raw, <<Fence>>)[2], <<Fence>>)[1]
          ELSE raw)

\* _generate_with_llm that answers a failed call with no code at all.
_generate_with_llm_empty_on_failure(llm_client, plan_, constraints, objectives) ==
    LET r == call_content(llm_client) IN
    IF r.raised # "" THEN <<>> ELSE extract_code(r.raw)

_generate_with_llm(llm_client, plan_, constraints, objectives) ==
    LET r == call_content(llm_client) IN
    IF r.raised # ""
    THEN _generate_from_templates(objectives, constraints)
    ELSE extract_code(r.raw)

\* The names of the tools of _generate_tools.
_generate_tools(plan_) ==
    <<"text_scorer">>
    \o (IF dict_get(plan_, "strategy", "balance") = "exploration"
        THEN <<"diversity_checker">> ELSE <<>>)

\* The source run generates before it validates it (lines 62-66).
generated_source(self, state) ==
    LET plan_       == dict_get(state, "plan", <<>>)
        constraints == dict_get(state, "constraints", <<>>)
        objectives  == dict_get(state, "objectives", <<length, keyword, quality>>)
    IN IF self.use_llm
       THEN _generate_with_llm(self.llm_client, plan_, constraints, objectives)
       ELSE _generate_from_templates(objectives, constraints)

\* run that validates again after the substitution and reports that verdict.
run_revalidates(self, state) ==
    LET first == _validate_code(generated_source(self, state))
        code  == IF first[1] THEN generated_source(self, state) ELSE _fallback_scorer
        v     == _validate_code(code)
    IN [scoring_code       |-> code,
        tools              |-> _generate_tools(dict_get(state, "plan", <<>>)),
        is_valid           |-> v[1],
        validation_message |-> v[2],
        objectives         |-> dict_get(state, "objectives", <<length, keyword, quality>>)]

run(self, state) ==
    LET scoring_code == generated_source(self, state)
        v            == _validate_code(scoring_code)
    IN [scoring_code       |-> IF v[1] THEN scoring_code ELSE _fallback_scorer,
        tools              |-> _generate_tools(dict_get(state, "plan", <<>>)),
        is_valid           |-> v[1],
        validation_message |-> v[2],
        objectives         |-> dict_get(state, "objectives", <<length, keyword, quality>>)]

\* What the score function of a source returns: the score each statement
\* outside a comment appends, in order, or the list it returns outright.
score_statements ==
    [s \in {"scores.append(max(0.0, len_score))", "scores.append(kw_score)",
            "scores.append(sim_score)", "scores.append(unique_ratio)",
            "scores.append(0.5)"} |->
        CASE s = "scores.append(max(0.0, len_score))" -> length
          [] s = "scores.append(kw_score)"            -> keyword
          [] s = "scores.append(sim_score)"           -> similarity
          [] s = "scores.append(unique_ratio)"        -> diversity
          [] OTHER                                    -> <<"0.5">>]

RECURSIVE appended(_, _)
appended(code, i) ==
    IF i > Len(code) THEN <<>>
    ELSE (IF code[i] \in DOMAIN score_statements /\ ~InComment(code, i)
          THEN <<score_statements[code[i]]>> ELSE <<>>)
         \o appended(code, i + 1)

returned_scores(code) ==
    IF Contains(code, <<"return [len_score, kw_score, quality]">>)
    THEN <<length, keyword, <<"0.5">>>>
    ELSE IF Contains(code, <<"return [0.5]">>) THEN << <<"0.5">> >>
    ELSE appended(code, 1)

----------------------------------------------------------------------------
(* Candidate generators (saga/search/generators.py)                        *)

\* seq[:n]
take(seq, n) ==
    IF n >= 0
    THEN SubSeq(seq, 1, IF n < Len(seq) THEN n ELSE Len(seq))
    ELSE SubSeq(seq, 1, Len(seq) + n)

Marker == "CANDIDATE:"

\* Lines i.. of the response: the content after the marker of each line that
\* starts with it, when that content is not empty.
RECURSIVE parsed_lines(_, _)
parsed_lines(lines, i) ==
    IF i > Len(lines) THEN <<>>
    ELSE LET line    == lines[i]
             content == strip(split_once(line, <<Marker>>)[2])
         IN (IF startswith(strip(line), <<Marker>>) /\ content # <<>>
             THEN <<content>> ELSE <<>>)
            \o parsed_lines(lines, i + 1)

_parse_candidates(raw, expected) ==
    take(parsed_lines(split(raw, <<NL>>), 1), expected)

\* The suffix _fallback_generate appends (a bracketed word for "improved").
ImprovedSuffix == "(improved)"

_fallback_generate(pop, num) ==
    LET head == take(pop, num) IN
    [i \in 1..Len(head) |->
        IF (i - 1) % 2 = 0 /\ Len(head[i]) > 10
        THEN SubSeq(head[i], 1, Len(head[i]) \div 2)
        ELSE head[i] \o <<ImprovedSuffix>>]

\* What generate hands back: the exception it raised ("" if none), the
\* candidates, and the client calls it issued.
Returned(raised, value, calls) ==
    [returned |-> TRUE, raised |-> raised, value |-> value, calls |-> calls]

\* generate without the try: the failure reaches the caller.
LLMGenerator_generate_unguarded(llm_client, pop, num) ==
    LET r == call_content(llm_client) IN
    IF r.raised # "" THEN Returned(r.raised, <<>>, 1)
    ELSE Returned("", _parse_candidates(r.raw, num), 1)

\* generate that calls the client a second time when the first call failed.
LLMGenerator_generate_retries(llm_client, pop, num) ==
    LET r == call_content(llm_client) IN
    IF r.raised # "" THEN Returned("", _fallback_generate(pop, num), 2)
    ELSE Returned("", _parse_candidates(r.raw, num), 1)

\* generate that falls back when the parser kept no candidate.
LLMGenerator_generate_fallback_on_empty(llm_client, pop, num) ==
    LET r == call_content(llm_client) IN
    IF r.raised # "" \/ _parse_candidates(r.raw, num) = <<>>
    THEN Returned("", _fallback_generate(pop, num), 1)
    ELSE Returned("", _parse_candidates(r.raw, num), 1)

\* LLMGenerator.generate: one client call; a content that is no string makes
\* the parser raise, which the handler catches like a failed call.
LLMGenerator_generate(llm_client, pop, num) ==
    LET r == call_content(llm_client) IN
    IF r.raised # "" THEN Returned("", _fallback_generate(pop, num), 1)
    ELSE Returned("", _parse_candidates(r.raw, num), 1)

_crossover(parent1, parent2) ==
    SubSeq(parent1, 1, Len(parent1) \div 2)
    \o SubSeq(parent2, Len(parent2) \div 2 + 1, Len(parent2))

\* The words _mutate inserts (four two-character words of the source:
\* "optimize", "improve", "strengthen", "adjust").
mutations == <<"youhua", "gaijin", "zengqiang", "tiaozheng">>

\* _mutate that overwrites the character at the position.
_mutate_replaces(candidate) ==
    IF candidate = <<>> THEN {candidate}
    ELSE {SubSeq(candidate, 1, pos) \o <<mutations[m]>>
              \o SubSeq(candidate, pos + 2, Len(candidate)) :
          pos \in 0..(Len(candidate) - 1), m \in DOMAIN mutations}

\* Every outcome of _mutate(candidate).
_mutate(candidate) ==
    IF candidate = <<>> THEN {candidate}
    ELSE {SubSeq(candidate, 1, pos) \o <<mutations[m]>>
              \o SubSeq(candidate, pos + 1, Len(candidate)) :
          pos \in 0..(Len(candidate) - 1), m \in DOMAIN mutations}

\* children whose mutation step may run a second time.
children_mutated_twice(pop) ==
    LET pairs == {ij \in (DOMAIN pop) \X (DOMAIN pop) : ij[1] # ij[2]}
        bred  == {_crossover(pop[ij[1]], pop[ij[2]]) : ij \in pairs}
                 \cup Range(pop)
        once  == UNION {_mutate(c) : c \in bred}
    IN bred \cup once \cup UNION {_mutate(c) : c \in once}

\* Every child one round of the loop can append: a crossover of two members
\* at different positions or one member, mutated or not (both rates lie
\* strictly between 0 and 1).
children(pop) ==
    LET pairs == {ij \in (DOMAIN pop) \X (DOMAIN pop) : ij[1] # ij[2]}
        bred  == {_crossover(pop[ij[1]], pop[ij[2]]) : ij \in pairs}
                 \cup Range(pop)
    IN bred \cup UNION {_mutate(c) : c \in bred}

\* generate that mutates a population of one a single time.
EvoGenerator_generate_single_mutation(pop, num) ==
    IF Len(pop) < 2
    THEN IF pop = <<>>
         THEN {Returned(IF num > 0 THEN "IndexError" ELSE "", <<>>, 0)}
         ELSE {Returned("", <<c>>, 0) : c \in _mutate(pop[1])}
    ELSE {Returned("", cs, 0) : cs \in [1..num -> children(pop)]}

\* Every outcome of EvoGenerator.generate.
EvoGenerator_generate(pop, num) ==
    IF Len(pop) < 2
    THEN IF num <= 0 THEN {Returned("", <<>>, 0)}
         ELSE IF pop = <<>> THEN {Returned("IndexError", <<>>, 0)}
         ELSE {Returned("", cs, 0) : cs \in [1..num -> _mutate(pop[1])]}
    ELSE {Returned("", cs, 0) : cs \in [1..num -> children(pop)]}

----------------------------------------------------------------------------
(* ParetoSelector (saga/search/generators.py)                              *)

\* sum(vec[i..])
RECURSIVE sum(_, _)
sum(vec, i) == IF i > Len(vec) THEN 0 ELSE vec[i] + sum(vec, i + 1)

\* sum(w * s for w, s in zip(ws, vec)) from position i on
RECURSIVE dot(_, _, _)
dot(ws, vec, i) ==
    IF i > Len(ws) \/ i > Len(vec) THEN 0
    ELSE ws[i] * vec[i] + dot(ws, vec, i + 1)

\* The scalar that ignores the weights.
weighted_unweighted(ws, score_vec) == sum(score_vec, 1)

\* The scalar select sorts by.
weighted(ws, score_vec) ==
    IF Len(ws) = Len(score_vec) THEN dot(ws, score_vec, 1) ELSE sum(score_vec, 1)

\* list.sort(key, reverse=True) on the positions 1..n: descending keys, equal
\* keys in their original order.
sort_reverse(key) ==
    LET n == Len(key)
        before(j, i) == key[j] > key[i] \/ (key[j] = key[i] /\ j < i)
        rank(i) == 1 + Cardinality({j \in 1..n : before(j, i)})
    IN [r \in 1..n |-> CHOOSE i \in 1..n : rank(i) = r]

\* A selector that returns the Pareto front first: the pairs that no pair
\* dominates, in input order, then the others.
ParetoSelector_select_front(cands, score_vecs, ws, k) ==
    IF cands = <<>> \/ score_vecs = <<>> THEN <<>>
    ELSE LET n      == IF Len(cands) < Len(score_vecs) THEN Len(cands)
                       ELSE Len(score_vecs)
             beaten(i) == \E j \in 1..n :
                              /\ \A d \in DOMAIN score_vecs[i] :
                                    score_vecs[j][d] >= score_vecs[i][d]
                              /\ \E d \in DOMAIN score_vecs[i] :
                                    score_vecs[j][d] > score_vecs[i][d]
             key    == [i \in 1..n |-> IF beaten(i) THEN 0 ELSE 1]
             order  == sort_reverse(key)
             scored == [r \in 1..n |-> <<cands[order[r]], score_vecs[order[r]]>>]
         IN take(scored, k)

\* ParetoSelector.select: the (candidate, score vector) pairs it returns.
ParetoSelector_select(cands, score_vecs, ws, k) ==
    IF cands = <<>> \/ score_vecs = <<>> THEN <<>>
    ELSE LET n      == IF Len(cands) < Len(score_vecs) THEN Len(cands)
                       ELSE Len(score_vecs)
             key    == [i \in 1..n |-> weighted(ws, score_vecs[i])]
             order  == sort_reverse(key)
             scored == [r \in 1..n |-> <<cands[order[r]], score_vecs[order[r]]>>]
         IN take(scored, k)

----------------------------------------------------------------------------
(* Prompt strategies and router (saga/search/routers.py)                   *)

\* GeneralStrategy.parse_candidates without the slice.
GeneralStrategy_parse_candidates_untruncated(raw, expected) ==
    parsed_lines(split(raw, <<NL>>), 1)

\* GeneralStrategy.parse_candidates: the same loop as
\* LLMGenerator._parse_candidates, then candidates[:expected].
GeneralStrategy_parse_candidates(raw, expected) ==
    take(parsed_lines(split(raw, <<NL>>), 1), expected)

\* The texts MathStrategy reads are cut into single characters. A character
\* outside ASCII is written as a name in brackets: [gong][shi] is the word
\* for "formula", [gai][jin] for "improve", [tiao][zheng] for "adjust".
FORMULA == <<"F", "O", "R", "M", "U", "L", "A", ":">>

Digits == {"0", "1", "2", "3", "4", "5", "6", "7", "8", "9"}

\* allowed_pattern: the characters of [0-9a-zA-Z\.\+\-\*\/\(\)\,\=\s\_]
allowed_pattern ==
    Digits \cup Range(LowerChars) \cup Range(UpperChars)
    \cup {".", "+", "-", "*", "/", "(", ")", ",", "=", " ", "_"}

\* The words of step 3, in its order.
blocked_words ==
    << <<"i", "m", "p", "r", "o", "v", "e">>,
       <<"a", "d", "j", "u", "s", "t">>,
       <<"f", "o", "r", "m", "u", "l", "a">>,
       <<"c", "a", "n", "d", "i", "d", "a", "t", "e">>,
       <<"[gai]", "[jin]">>,
       <<"[tiao]", "[zheng]">>,
       <<"o", "p", "t", "i", "m", "i", "z", "e", "d">> >>

\* text.count(ch)
count(text, ch) == Cardinality({i \in DOMAIN text : text[i] = ch})

\* Where the match of ^\d+\. ends in clean, 0 if it does not match.
list_marker(clean) ==
    LET runs == {n \in 0..Len(clean) : \A i \in 1..n : clean[i] \in Digits}
        nd   == CHOOSE n \in runs : \A m \in runs : m <= n
    IN IF nd >= 1 /\ Len(clean) > nd /\ clean[nd + 1] = "." THEN nd + 1 ELSE 0

\* The content of a line that only the FORMULA: prefix yields.
content_of_formula_lines_only(line) ==
    LET clean == strip(line) IN
    IF startswith(clean, FORMULA) THEN strip(split_once(clean, FORMULA)[2])
    ELSE <<>>

\* The content the loop extracts from a line (lines 141-155), empty if none.
content_of(line) ==
    LET clean == strip(line) IN
    IF startswith(clean, FORMULA) THEN strip(split_once(clean, FORMULA)[2])
    ELSE IF list_marker(clean) # 0
    THEN LET item      == strip(SubSeq(clean, list_marker(clean) + 1, Len(clean)))
             potential == IF startswith(item, FORMULA)
                          THEN strip(split_once(item, FORMULA)[2])
                          ELSE item
         IN IF \E op \in {"+", "-", "*", "/", "**", "x"} :
                   Contains(potential, IF op = "**" THEN <<"*", "*">> ELSE <<op>>)
            THEN potential ELSE <<>>
    ELSE <<>>

\* The three checks without the word list.
passes_filters_without_words(content) ==
    /\ ~(count(content, ",") > 3 \/ count(content, "(") > 4 \/ Len(content) > 100)
    /\ \A i \in DOMAIN content : content[i] \in allowed_pattern

\* The three checks of lines 157-169 on a content that is not empty.
passes_filters(content) ==
    /\ ~(count(content, ",") > 3 \/ count(content, "(") > 4 \/ Len(content) > 100)
    /\ \A i \in DOMAIN content : content[i] \in allowed_pattern
    /\ ~\E w \in DOMAIN blocked_words : Contains(lower(content), blocked_words[w])

\* The candidates of lines i.. of the output.
RECURSIVE math_candidates(_, _)
math_candidates(lines, i) ==
    IF i > Len(lines) THEN <<>>
    ELSE (IF content_of(lines[i]) # <<>> /\ passes_filters(content_of(lines[i]))
          THEN <<content_of(lines[i])>> ELSE <<>>)
         \o math_candidates(lines, i + 1)

MathStrategy_parse_candidates(raw, expected) ==
    take(math_candidates(split(raw, <<NL>>), 1), expected)

\* The two strategy objects: they hold no field.
GeneralStrategy == [class |-> "GeneralStrategy"]
MathStrategy    == [class |-> "MathStrategy"]

\* PromptRouter(): the strategies it holds.
PromptRouter == [_strategies |-> [general |-> GeneralStrategy, math |-> MathStrategy]]

\* The math keywords, in their order; the five of them that are not ASCII are
\* written in brackets (fitting, formula, regression, polynomial, x squared).
math_keywords ==
    <<"formula", "equation", "regression", "symbolic", "math",
      "[nihe]", "[gongshi]", "[huigui]", "[duoxiangshi]", "[x2]">>

\* get_strategy that looks at the first keyword only.
get_strategy_first_keyword(self, kws) ==
    IF kws # <<>> /\ \E k \in DOMAIN math_keywords : math_keywords[k] = kws[1]
    THEN self._strategies.math
    ELSE self._strategies.general

\* any(k in keywords for k in math_keywords)
get_strategy(self, kws) ==
    IF \E k \in DOMAIN math_keywords : \E j \in DOMAIN kws : kws[j] = math_keywords[k]
    THEN self._strategies.math
    ELSE self._strategies.general

----------------------------------------------------------------------------
(* Initial states                                                          *)

HeapInit ==
    heap = [o \in Objs |-> IF \E m \in Modes : MODE_REVIEW_STAGES[m] = o
                           THEN TableLiteral(CHOOSE m \in Modes : MODE_REVIEW_STAGES[m] = o)
                           ELSE {}]

\* No controller constructed yet.
MCInit ==
    /\ HeapInit
    /\ ctl = [c \in Ctls |-> NoCtl]
    /\ ret = "ok"
    /\ last = NoOp

\* A run that has not started.
RunInit ==
    /\ pc = "ANALYZE"
    /\ phase = "gate"
    /\ iteration = 0
    /\ score_history = <<>>
    /\ stop_result = "unset"
    /\ reason = ""
    /\ executed = "NONE"
    /\ review = NoReview

\* No object constructed / no call made yet.
NoImplementer == [constructed |-> FALSE]
NotCalled == [returned |-> FALSE]

\* No implementer and no generator in use.
ExtIdle ==
    /\ implementer = NoImplementer
    /\ impl_state = <<>>
    /\ result = NotCalled
    /\ client = NoClient
    /\ population = <<>>
    /\ num_candidates = 0
    /\ generated = NotCalled
    /\ llm_calls = 0
    /\ candidates = <<>>
    /\ scores = <<>>
    /\ weights = <<>>
    /\ top_k = 0
    /\ selected = NotCalled
    /\ router = PromptRouter
    /\ keywords = <<>>
    /\ strategy = NotCalled
    /\ raw_output = <<>>
    /\ expected_n = 0
    /\ parsed = NotCalled

----------------------------------------------------------------------------
(* The controller on its own: any sequence of its operations               *)

Construct(C) ==
    /\ \E c \in C, m \in Modes : __init__(c, m, FALSE)
    /\ UNCHANGED <<runvars, extvars>>

ConstructDefault(C) ==
    /\ \E c \in C : __init__(c, DefaultMode, TRUE)
    /\ UNCHANGED <<runvars, extvars>>

SwitchMode(C) ==
    /\ \E c \in C, m \in Modes : switch_mode(c, m)
    /\ UNCHANGED <<runvars, extvars>>

AddReviewStage(C) ==
    /\ \E c \in C, s \in StageArgs : add_review_stage(c, s)
    /\ UNCHANGED <<runvars, extvars>>

RemoveReviewStage(C) ==
    /\ \E c \in C, s \in StageArgs : remove_review_stage(c, s)
    /\ UNCHANGED <<runvars, extvars>>

\* c2 = ModeController.from_dict(c1.to_dict())
RoundTrip ==
    /\ \E src \in Ctls, c \in Ctls :
          /\ Constructed(src)
          /\ \E d \in to_dict(src) : from_dict(c, d, src)
    /\ UNCHANGED <<runvars, extvars>>

\* c = ModeController.from_dict(data) on data written by hand
Restore ==
    /\ \E c \in Ctls, d \in HandData : from_dict(c, d, 0)
    /\ UNCHANGED <<runvars, extvars>>

MCNext ==
    \/ Construct(Ctls)
    \/ ConstructDefault(Ctls)
    \/ SwitchMode(Ctls)
    \/ AddReviewStage(Ctls)
    \/ RemoveReviewStage(Ctls)
    \/ RoundTrip
    \/ Restore

Init == MCInit /\ RunInit /\ ExtIdle

Spec == Init /\ [][MCNext]_vars

----------------------------------------------------------------------------
(* A run with its controller; the mode and the review stages may be changed *)
(* from outside at any point of the run.                                   *)

\* The run's controller has been constructed, in any mode.
LoopInit ==
    /\ \E m \in Modes :
         /\ ctl = [c \in Ctls |-> IF c = RunCtl
                                  THEN [mode |-> m, review_stages |-> Cell(c)]
                                  ELSE NoCtl]
         /\ heap = [o \in Objs |->
                      IF \E k \in Modes : MODE_REVIEW_STAGES[k] = o
                      THEN TableLiteral(CHOOSE k \in Modes : MODE_REVIEW_STAGES[k] = o)
                      ELSE IF o = Cell(RunCtl) THEN TableLiteral(m) ELSE {}]
         /\ last = [NoOp EXCEPT !.op = "__init__", !.c = RunCtl, !.mode = m]
    /\ ret = "ok"
    /\ RunInit
    /\ ExtIdle

LoopNext ==
    \/ SwitchMode({RunCtl})
    \/ AddReviewStage({RunCtl})
    \/ RemoveReviewStage({RunCtl})
    \/ Gate
    \/ \E signal \in {"approve", "edit"} : Resume(signal)
    \/ Cancel
    \/ RunStage
    \/ CheckTermination

LoopSpec == LoopInit /\ [][LoopNext]_vars

\* The run makes progress by itself wherever it does not wait for a signal:
\* the gate check, the stage and the termination check are steps of the
\* loop; approvals, cancellations and changes of the controller are not.
FairLoopSpec ==
    /\ LoopInit
    /\ [][LoopNext]_vars
    /\ WF_vars(Gate)
    /\ WF_vars(RunStage)
    /\ WF_vars(CheckTermination)

----------------------------------------------------------------------------
(* The termination checker on its own: any state object, any call          *)

Histories == UNION {[1..n -> Scores] : n \in 0..MaxHistory}

TermInit ==
    /\ MCInit
    /\ ExtIdle
    /\ pc = "OPTIMIZE"
    /\ phase = "check"
    /\ iteration \in 0..(max_iters + 1)
    /\ score_history \in Histories
    /\ stop_result = "unset"
    /\ reason = ""
    /\ executed = "OPTIMIZE"
    /\ review = NoReview

CallShouldStop ==
    /\ stop_result' = BoolStr(should_stop(State))
    /\ UNCHANGED <<pc, phase, iteration, score_history, reason, executed, review>>
    /\ UNCHANGED <<mcvars, extvars>>

CallGetTerminationReason ==
    /\ reason' = get_termination_reason(State)
    /\ UNCHANGED <<pc, phase, iteration, score_history, stop_result, executed, review>>
    /\ UNCHANGED <<mcvars, extvars>>

TermNext ==
    \/ CallShouldStop
    \/ CallGetTerminationReason

TermSpec == TermInit /\ [][TermNext]_vars

----------------------------------------------------------------------------
(* The implementer on its own: any configuration, any client, any state    *)

MaxObjectives == 2

ObjectiveNames == {length, keyword, similarity, diversity, quality, profile}

ObjectiveLists == UNION {[1..n -> ObjectiveNames] : n \in 0..MaxObjectives}

\* A scoring function that is Python and touches nothing on the deny-list.
GoodCode == <<"def score(text, context):", NL, "return [0.5]">>

\* What the model may answer.
ImplContents ==
    { GoodCode,
      <<"Here is the code:", NL, Fence, "python", NL>> \o GoodCode
          \o <<NL, Fence, NL, "It never calls", "eval", "(">>,
      <<Fence, NL>> \o GoodCode \o <<NL, Fence>>,
      <<Fence, "python", NL>> \o GoodCode,
      <<"import", " ", "os", NL>> \o GoodCode,
      <<"#", "reads no ", "file", NL>> \o GoodCode,
      <<"def score(text, context):", NL, "return", "(">>,
      <<"Sorry, I cannot help.">>,
      <<>>,
      <<NL, " ">> }

ImplClients ==
    {NoClient, Client(TRUE, "None", <<>>)}
    \cup {Client(FALSE, s, <<>>) : s \in MalformedShapes \cup {"{}"}}
    \cup {Client(FALSE, "chat", t) : t \in ImplContents}

Configs == {<<>>, "use_llm" :> TRUE, "use_llm" :> FALSE}

ImplStates ==
    {p @@ o : p \in {<<>>, "plan" :> ("strategy" :> "exploration")},
              o \in {<<>>} \cup {"objectives" :> l : l \in ObjectiveLists}}

ImplInit ==
    /\ MCInit
    /\ RunInit
    /\ ExtIdle

\* implementer = AdvancedImplementer(config, llm_client)
NewImplementer ==
    /\ implementer = NoImplementer
    /\ \E config \in Configs, llm_client \in ImplClients :
          implementer' = AdvancedImplementer(config, llm_client)
    /\ UNCHANGED <<impl_state, result>>
    /\ UNCHANGED <<mcvars, runvars, genvars, searchvars>>

\* result = implementer.run(state)
CallRun ==
    /\ implementer # NoImplementer
    /\ result = NotCalled
    /\ \E state \in ImplStates :
          /\ impl_state' = state
          /\ result' = run(implementer, state)
    /\ UNCHANGED implementer
    /\ UNCHANGED <<mcvars, runvars, genvars, searchvars>>

ImplNext ==
    \/ NewImplementer
    \/ CallRun

ImplSpec == ImplInit /\ [][ImplNext]_vars

----------------------------------------------------------------------------
(* The generators on their own: any client, any population, any number     *)

MaxNum == 2

cand_ab == <<"a", "b">>
cand_cd == <<"c", "d">>
cand_long == <<"k1", "k2", "k3", "k4", "k5", "k6", "k7", "k8", "k9", "k10", "k11">>

\* Populations handed to LLMGenerator.generate.
Populations ==
    {<<>>, <<cand_ab>>, <<cand_long, cand_ab>>, <<cand_ab, cand_long, cand_cd>>,
     <<cand_long, cand_long, cand_long>>}

\* Populations handed to EvoGenerator.generate.
EvoPopulations == {<<>>, <<cand_ab>>, << <<>> >>, <<cand_ab, cand_cd>>}

\* What the model may answer.
GenContents ==
    { <<Marker, " ", "x1", NL, Marker, " ", "x2", NL, Marker, "x3">>,
      <<"Here are ideas", NL, " ", Marker, " ", "x1", " ", NL, "note">>,
      <<Marker, " ", "x1", " ", Marker, " ", "x2">>,
      <<Marker, " ", NL, Marker>>,
      <<"- ", Marker, " ", "x1">>,
      <<"no marker here", NL, "x1">>,
      <<>> }

GenClients ==
    {Client(TRUE, "None", <<>>)}
    \cup {Client(FALSE, s, <<>>) : s \in MalformedShapes \cup {"{}"}}
    \cup {Client(FALSE, "chat", t) : t \in GenContents}

GenInit ==
    /\ MCInit
    /\ RunInit
    /\ ExtIdle

\* generated = LLMGenerator(client).generate(population, feedback, num_candidates)
LLMGenerate ==
    /\ generated = NotCalled
    /\ \E c \in GenClients, pop \in Populations, n \in 0..MaxNum :
          /\ client' = c
          /\ population' = pop
          /\ num_candidates' = n
          /\ generated' = LLMGenerator_generate(c, pop, n)
          /\ llm_calls' = LLMGenerator_generate(c, pop, n).calls
    /\ UNCHANGED <<mcvars, runvars, implvars, searchvars>>

\* generated = EvoGenerator().generate(population, feedback, num_candidates)
EvoGenerate ==
    /\ generated = NotCalled
    /\ \E pop \in EvoPopulations, n \in 0..MaxNum :
          /\ population' = pop
          /\ num_candidates' = n
          /\ \E r \in EvoGenerator_generate(pop, n) :
                /\ generated' = r
                /\ llm_calls' = r.calls
    /\ UNCHANGED client
    /\ UNCHANGED <<mcvars, runvars, implvars, searchvars>>

GenNext ==
    \/ LLMGenerate
    \/ EvoGenerate

GenSpec == GenInit /\ [][GenNext]_vars

----------------------------------------------------------------------------
(* The selector on its own: any candidates, scores, weights and top_k      *)

MaxPairs == 3

\* Candidate texts; the third repeats the first.
CandidateNames == <<"A", "B", "A", "C", "D", "E">>

ScoreVectors == [1..2 -> 0..1]

\* Weights of the two objectives, and weights of another length.
WeightLists == {<<1, 1>>, <<1, 2>>, <<0, 1>>, <<2>>, <<>>}

\* selected = ParetoSelector().select(candidates, scores, weights, top_k)
Select ==
    /\ selected = NotCalled
    /\ \E n \in 0..MaxPairs, ws \in WeightLists, k \in 0..(MaxPairs + 1),
          score_vecs \in UNION {[1..m -> ScoreVectors] : m \in 0..MaxPairs} :
          /\ candidates' = SubSeq(CandidateNames, 1, n)
          /\ scores' = score_vecs
          /\ weights' = ws
          /\ top_k' = k
          /\ selected' = [returned |-> TRUE,
                          value |-> ParetoSelector_select(
                                        SubSeq(CandidateNames, 1, n), score_vecs, ws, k)]
    /\ UNCHANGED routevars
    /\ UNCHANGED <<mcvars, runvars, implvars, genvars>>

SelSpec == Init /\ [][Select]_vars

----------------------------------------------------------------------------
(* The router and the two parsers on their own                             *)

MaxKeywords == 2

\* strategy = router.get_strategy(keywords), at any time and any number of
\* times. The keywords are words of the list and near misses: another case,
\* a longer word.
GetStrategy ==
    /\ \E kws \in UNION {[1..n -> {"formula", "math", "regression", "symbolic",
                                   "[gongshi]", "[x2]", "Math", "mathematics",
                                   "text", "x2"}] : n \in 0..MaxKeywords} :
          /\ keywords' = kws
          /\ strategy' = get_strategy(router, kws)
    /\ UNCHANGED <<router, raw_output, expected_n, parsed>>
    /\ UNCHANGED <<mcvars, runvars, implvars, genvars, selvars>>

RouteSpec == Init /\ [][GetStrategy]_vars

MaxLines == 2

\* The outputs of up to MaxLines lines: "\n".join(ls).
Outputs(lines) ==
    LET RECURSIVE join(_, _)
        join(ls, i) ==
            IF i > Len(ls) THEN <<>>
            ELSE ls[i] \o (IF i < Len(ls) THEN <<NL>> ELSE <<>>) \o join(ls, i + 1)
    IN {join(ls, 1) : ls \in UNION {[1..n -> lines] : n \in 0..MaxLines}}

\* Lines of a model output for GeneralStrategy: with the marker at the start,
\* after blanks, alone, before blanks only, inside and twice; without it.
GeneralLines ==
    { <<Marker, " ", "alpha">>,
      <<" ", Marker, "beta", " ">>,
      <<Marker>>,
      <<Marker, " ">>,
      <<"Here are", Marker, "gamma">>,
      <<Marker, "delta", Marker, "epsilon">>,
      <<"Here are">>,
      <<>> }

\* Lines of a model output for MathStrategy: the first two lines of the test;
\* prose with a blocked word and prose outside ASCII; a FORMULA: line with
\* blanks around it; a list item without an operator; contents that the
\* filters reject; and a content of 100 and one of 101 characters.
MathLines ==
    { <<"1", ".", " ", "x", "*", "*", "2", " ", "+", " ", "3", "*", "x", " ", "-", " ", "2">>,
      <<"2", ".", " ", "F", "O", "R", "M", "U", "L", "A", ":", " ", "(", "x", "+", "1", ")", "*", "*", "2", " ", "+", " ", "x", " ", "-", " ", "3">>,
      <<"i", "m", "p", "r", "o", "v", "e">>,
      <<"[gong]", "[shi]">>,
      <<" ", " ", "F", "O", "R", "M", "U", "L", "A", ":", " ", " ", "y", " ", "=", " ", "a", "_", "1", " ", " ">>,
      <<"1", "2", ".", " ", "4", "2">>,
      <<"F", "O", "R", "M", "U", "L", "A", ":", " ", "I", "m", "p", "r", "o", "v", "e", " ", "x">>,
      <<"F", "O", "R", "M", "U", "L", "A", ":", " ", "x", " ", "+", " ", "[gong]", "[shi]">>,
      <<"F", "O", "R", "M", "U", "L", "A", ":", " ", "f", "(", "1", ",", "2", ",", "3", ",", "4", ",", "5", ")">>,
      <<"F", "O", "R", "M", "U", "L", "A", ":", " ", "(", "(", "(", "(", "(", "x", ")", ")", ")", ")", ")">>,
      FORMULA \o <<"2">> \o [i \in 1..99 |-> IF i % 2 = 1 THEN "x" ELSE "+"],
      FORMULA \o <<"2", "*">> \o [i \in 1..99 |-> IF i % 2 = 1 THEN "x" ELSE "+"] }

\* parsed = GeneralStrategy().parse_candidates(raw_output, expected)
ParseGeneral ==
    /\ parsed = NotCalled
    /\ \E raw \in Outputs(GeneralLines), expected \in 0..MaxLines :
          /\ raw_output' = raw
          /\ expected_n' = expected
          /\ parsed' = [returned |-> TRUE,
                        value |-> GeneralStrategy_parse_candidates(raw, expected)]
    /\ strategy' = GeneralStrategy
    /\ UNCHANGED <<router, keywords>>
    /\ UNCHANGED <<mcvars, runvars, implvars, genvars, selvars>>

\* parsed = MathStrategy().parse_candidates(raw_output, expected)
ParseMath ==
    /\ parsed = NotCalled
    /\ \E raw \in Outputs(MathLines), expected \in 0..MaxLines :
          /\ raw_output' = raw
          /\ expected_n' = expected
          /\ parsed' = [returned |-> TRUE,
                        value |-> MathStrategy_parse_candidates(raw, expected)]
    /\ strategy' = MathStrategy
    /\ UNCHANGED <<router, keywords>>
    /\ UNCHANGED <<mcvars, runvars, implvars, genvars, selvars>>

ParseSpec == Init /\ [][ParseGeneral \/ ParseMath]_vars

----------------------------------------------------------------------------
(* Properties                                                              *)

\* C1: right after a controller is constructed with mode m, and right after
\* switch_mode(m) from any state, its mode is m and its review-stage set is
\* exactly the default set of m: manual edits do not survive a switch.
C1_ResetToDefault ==
    \A c \in Ctls :
        (last.c = c /\ last.op \in {"__init__", "switch_mode"}) =>
            /\ ctl[c].mode = last.mode
            /\ review_stages(c) = TableLiteral(last.mode)

\* A switch that found the set edited away from the old mode's default.
C1_Witness ==
    /\ last.op = "switch_mode"
    /\ last.edited
    /\ review_stages(last.c) = TableLiteral(last.mode)

\* C2: a freshly constructed controller answers requires_human_review over
\* the four stages as the default table says (co-pilot: all four; semi-pilot:
\* analyze only; autopilot: none), and one constructed with no argument is in
\* semi-pilot.
C2_DefaultTable ==
    \A c \in Ctls :
        (last.c = c /\ last.op = "__init__") =>
            /\ ctl[c].mode = last.mode
            /\ last.defaulted => ctl[c].mode = "SEMI_PILOT"
            /\ \A s \in {analyze, plan, implement, optimize} :
                   requires_human_review(c, s) <=>
                       \/ ctl[c].mode = "CO_PILOT"
                       \/ ctl[c].mode = "SEMI_PILOT" /\ s = analyze

\* A controller constructed with no argument: it reviews analyze and not plan.
C2_Witness ==
    /\ last.op = "__init__"
    /\ last.defaulted
    /\ requires_human_review(last.c, analyze)
    /\ ~requires_human_review(last.c, plan)

\* C3: from_dict(to_dict()) gives a controller with the same mode and the
\* same review-stage set as the one serialized, in whatever order to_dict
\* listed the stages.
C3_RoundTrip ==
    (last.op = "from_dict" /\ last.src # 0 /\ last.src # last.c) =>
        /\ ret = "ok"
        /\ ctl[last.c].mode = ctl[last.src].mode
        /\ review_stages(last.c) = review_stages(last.src)

\* A round trip of a controller whose set had been edited.
C3_Witness ==
    /\ last.op = "from_dict"
    /\ last.src # 0
    /\ last.src # last.c
    /\ ret = "ok"
    /\ Cardinality(review_stages(last.src)) >= 2
    /\ review_stages(last.src) # TableLiteral(ctl[last.src].mode)

\* C4: from_dict on a state whose mode is not one of "co-pilot",
\* "semi-pilot", "autopilot" (a missing mode included) fails; it never
\* returns a controller in a default mode instead.
C4_UnknownModeFails ==
    (/\ last.op = "from_dict"
     /\ \/ ~last.has_mode
        \/ last.mode \notin {"co-pilot", "semi-pilot", "autopilot"})
    => ret # "ok"

\* C5: requires_human_review is case-insensitive membership in every state:
\* two case variants of a stage name get the same answer, and the answer is
\* true when the set holds the name in any casing.
C5_CaseInsensitiveMembership ==
    \A c \in Ctls :
        Constructed(c) =>
            \A s \in StageArgs :
                /\ \A t \in StageArgs :
                      lower(t) = lower(s) =>
                          (requires_human_review(c, t) <=> requires_human_review(c, s))
                /\ (\E u \in review_stages(c) : lower(u) = lower(s)) =>
                      requires_human_review(c, s)

\* C6: add_review_stage(s) and remove_review_stage(s) leave the mode alone
\* and act on the set alone, the same in every mode: afterwards the set is
\* the one before with lower(s) put in (taken out), requires_human_review(s)
\* is true (false), and doing it once more changes nothing.
C6_AddRemoveIdempotent ==
    [][\A c \in Ctls, s \in StageArgs :
         /\ (last'.op = "add_review_stage" /\ last'.c = c /\ last'.stage = s) =>
                /\ ctl'[c] = ctl[c]
                /\ review_stages(c)' = review_stages(c) \cup {lower(s)}
                /\ requires_human_review(c, s)'
                /\ last = last' => review_stages(c)' = review_stages(c)
         /\ (last'.op = "remove_review_stage" /\ last'.c = c /\ last'.stage = s) =>
                /\ ctl'[c] = ctl[c]
                /\ review_stages(c)' = review_stages(c) \ {lower(s)}
                /\ ~requires_human_review(c, s)'
                /\ last = last' => review_stages(c)' = review_stages(c)
      ]_vars

\* A stage added under a case variant of its name, in a mode whose default
\* set does not hold it.
C6_Witness ==
    /\ last.op = "add_review_stage"
    /\ last.stage # lower(last.stage)
    /\ lower(last.stage) \notin TableLiteral(ctl[last.c].mode)
    /\ requires_human_review(last.c, last.stage)

\* C7 as stated: the stages execute in the cyclic order ANALYZE, PLAN,
\* IMPLEMENT, OPTIMIZE with none skipped; after OPTIMIZE the run goes to
\* TERMINATED if should_stop and back to ANALYZE if not; TERMINATED is
\* absorbing.
C7_FixedCyclicOrder ==
    [][/\ (phase = "ready" /\ phase' # "ready") =>
            <<executed, pc>> \in {<<"NONE", "ANALYZE">>, <<"ANALYZE", "PLAN">>,
                                  <<"PLAN", "IMPLEMENT">>, <<"IMPLEMENT", "OPTIMIZE">>,
                                  <<"OPTIMIZE", "ANALYZE">>}
       /\ (pc' # pc) =>
            \/ phase = "ready" /\ executed' = pc /\
                 <<pc, pc'>> \in {<<"ANALYZE", "PLAN">>, <<"PLAN", "IMPLEMENT">>,
                                  <<"IMPLEMENT", "OPTIMIZE">>}
            \/ phase = "check" /\ pc = "OPTIMIZE" /\
                 pc' = (IF should_stop(State) THEN "TERMINATED" ELSE "ANALYZE")
       /\ (phase = "check" /\ phase' # "check") => pc' # pc
       /\ (pc = "TERMINATED") =>
            (pc' = "TERMINATED" /\ phase' = phase /\ executed' = executed)
      ]_vars

\* C7 as amended: as above, except that cancelling a pending review drops
\* the rest of that iteration: the run goes to ANALYZE and ANALYZE is the
\* next stage to execute.
C7_CyclicOrderUnlessCancelled ==
    [][/\ (phase = "ready" /\ phase' # "ready") =>
            IF review.aborted
            THEN pc = "ANALYZE"
            ELSE <<executed, pc>> \in {<<"NONE", "ANALYZE">>, <<"ANALYZE", "PLAN">>,
                                       <<"PLAN", "IMPLEMENT">>, <<"IMPLEMENT", "OPTIMIZE">>,
                                       <<"OPTIMIZE", "ANALYZE">>}
       /\ (pc' # pc) =>
            \/ phase = "ready" /\ executed' = pc /\
                 <<pc, pc'>> \in {<<"ANALYZE", "PLAN">>, <<"PLAN", "IMPLEMENT">>,
                                  <<"IMPLEMENT", "OPTIMIZE">>}
            \/ phase = "check" /\ pc = "OPTIMIZE" /\
                 pc' = (IF should_stop(State) THEN "TERMINATED" ELSE "ANALYZE")
            \/ phase = "suspended" /\ review'.signal = "cancel" /\ review'.aborted /\
                 pc' = "ANALYZE" /\ executed' = executed
       /\ (phase = "check" /\ phase' # "check") => pc' # pc
       /\ (pc = "TERMINATED") =>
            (pc' = "TERMINATED" /\ phase' = phase /\ executed' = executed)
      ]_vars

\* In a later iteration, the review before IMPLEMENT was cancelled after PLAN
\* had executed, and ANALYZE is cleared to execute next.
C7_Witness ==
    /\ review.aborted
    /\ executed = "PLAN"
    /\ pc = "ANALYZE"
    /\ phase = "ready"
    /\ iteration >= 1

\* C8: at the gate before a stage the run suspends exactly when the stage
\* (lowercased) is in the controller's review-stage set at that moment; it
\* suspends nowhere else; a suspended stage executes only after an approve or
\* edit signal; in autopilot with an empty set the run never suspends.
C8_SuspendsExactlyOnReview ==
    [][/\ (pc \in Stages /\ phase = "gate" /\ phase' # "gate") =>
            /\ phase' = "suspended" <=> lower(StageName(pc)) \in review_stages(RunCtl)
            /\ phase' = "ready" <=> lower(StageName(pc)) \notin review_stages(RunCtl)
            /\ pc' = pc /\ executed' = executed
       /\ (phase' = "suspended" /\ phase # "suspended") => phase = "gate"
       /\ (phase = "suspended" /\ phase' = "ready") =>
            review'.signal \in {"approve", "edit"}
       /\ (phase = "suspended" /\ phase' # "suspended") => executed' = executed
       /\ (phase = "ready" /\ phase' # "ready" /\ review.required) =>
            review.signal \in {"approve", "edit"}
       /\ (ctl[RunCtl].mode = "AUTOPILOT" /\ review_stages(RunCtl) = {}) =>
            (phase' = "suspended" => phase = "suspended")
      ]_vars

\* The run is suspended before OPTIMIZE in semi-pilot, whose default set
\* does not hold optimize: the stage was added by hand.
C8_Witness ==
    /\ phase = "suspended"
    /\ pc = "OPTIMIZE"
    /\ review.required
    /\ ctl[RunCtl].mode = "SEMI_PILOT"
    /\ optimize \in review_stages(RunCtl)

\* C9: cancelling a pending review aborts the iteration (the run goes to
\* ANALYZE, nothing executes) and does not terminate the run; TERMINATED is
\* entered only from the check after OPTIMIZE, and only when should_stop is
\* true there.
C9_TerminatedOnlyFromCheck ==
    [][/\ (pc' = "TERMINATED" /\ pc # "TERMINATED") =>
            (pc = "OPTIMIZE" /\ phase = "check" /\ should_stop(State))
       /\ (phase = "suspended" /\ phase' # "suspended" /\ review'.signal = "cancel") =>
            (pc' = "ANALYZE" /\ phase' = "gate" /\ executed' = executed)
      ]_vars

\* The review before OPTIMIZE was cancelled: the run is back at ANALYZE.
C9_Witness ==
    /\ review.signal = "cancel"
    /\ review.aborted
    /\ executed = "IMPLEMENT"
    /\ pc = "ANALYZE"
    /\ phase = "gate"

\* C10: for a state with iteration >= max_iters, whatever its score history,
\* should_stop returns true and get_termination_reason says "max iterations".
C10_StopsAtMaxIters ==
    (iteration >= max_iters) =>
        /\ stop_result \in {"unset", "True"}
        /\ reason \in {"", "max iterations"}

\* Both calls made on a state at the limit whose history has not converged.
C10_Witness ==
    /\ iteration = max_iters
    /\ ~_is_converged(score_history)
    /\ Len(score_history) >= convergence_patience
    /\ stop_result = "True"
    /\ reason = "max iterations"


\* C11: for a state with iteration < max_iters, should_stop returns true
\* exactly when the history holds at least convergence_patience entries and
\* the last convergence_patience of them are pairwise within convergence_eps;
\* a trailing window that spreads by more than eps does not stop the run.
C11_StopsExactlyOnConvergence ==
    (iteration < max_iters /\ stop_result # "unset") =>
        LET n == Len(score_history) IN
        (stop_result = "True") <=>
            /\ n >= convergence_patience
            /\ \A i, j \in (n - convergence_patience + 1)..n :
                   Abs(score_history[i] - score_history[j]) <= convergence_eps

\* should_stop answered true below the limit on a history whose window has
\* settled although its first entry lies further than eps from the last.
C11_Witness ==
    /\ iteration < max_iters
    /\ stop_result = "True"
    /\ Len(score_history) > convergence_patience
    /\ Abs(score_history[1] - score_history[Len(score_history)]) > convergence_eps

\* should_stop answered false below the limit on a full-length history whose
\* last two entries differ by more than eps.
C11_WitnessNotConverged ==
    /\ iteration < max_iters
    /\ stop_result = "False"
    /\ Len(score_history) >= convergence_patience
    /\ Abs(score_history[Len(score_history)]
           - score_history[Len(score_history) - 1]) > convergence_eps

\* A source holds a pattern of the deny-list.
HasForbidden(code) == \E k \in DOMAIN forbidden : Contains(code, forbidden[k])

\* The objectives run works on.
RunObjectives == dict_get(impl_state, "objectives", <<length, keyword, quality>>)

\* The client of the implementer fails: the call raises or the response is
\* None, has no choice, or has a content that is no string.
ClientFails ==
    /\ implementer.llm_client # NoClient
    /\ \/ implementer.llm_client.raises
       \/ implementer.llm_client.shape \in MalformedShapes

\* C12: the scoring code run returns never holds a deny-listed pattern and
\* always compiles, whatever the client answers and whatever the objectives.
C12_ReturnedCodeIsSafe ==
    (result # NotCalled) =>
        /\ ~HasForbidden(result.scoring_code)
        /\ Compiles(result.scoring_code)

\* The model answered with code that imports os, and run returned the
\* fallback scorer in its place.
C12_Witness ==
    /\ result # NotCalled
    /\ implementer.use_llm
    /\ Contains(implementer.llm_client.text, <<"import", " ", "os">>)
    /\ result.scoring_code = _fallback_scorer

\* C13: is_valid and validation_message are the verdict on the generated
\* source: a rejected source gives is_valid false, the rejection message and
\* the fallback scorer; an accepted one gives is_valid true and that source.
C13_VerdictOnGeneratedSource ==
    (result # NotCalled) =>
        LET g == generated_source(implementer, impl_state) IN
        /\ result.is_valid <=> (~HasForbidden(g) /\ Compiles(g))
        /\ result.is_valid =>
              /\ result.scoring_code = g
              /\ result.validation_message = <<"OK">>
        /\ ~result.is_valid =>
              /\ result.scoring_code = _fallback_scorer
              /\ result.validation_message # <<"OK">>
              /\ HasForbidden(g) =>
                    /\ startswith(result.validation_message, <<"Forbidden pattern: ">>)
                    /\ Contains(g, SubSeq(result.validation_message, 2,
                                          Len(result.validation_message)))

\* The model answered with code that does not compile: run reports the
\* syntax error and returns the fallback scorer.
C13_Witness ==
    /\ result # NotCalled
    /\ implementer.use_llm
    /\ ~result.is_valid
    /\ result.validation_message = <<"Syntax error: ">>
    /\ result.scoring_code = _fallback_scorer
    /\ ~Compiles(generated_source(implementer, impl_state))

\* The score an objective asks for.
expected_score(obj) ==
    IF obj \in {length, keyword, similarity, diversity} THEN obj ELSE <<"0.5">>

\* C14: the score function of the returned code returns one score per
\* requested objective, in the order of the objectives, on every path.
C14_OneScorePerObjective ==
    (result # NotCalled) =>
        returned_scores(result.scoring_code)
            = [i \in 1..Len(RunObjectives) |-> expected_score(RunObjectives[i])]

\* C15: without a client run takes the template path and returns is_valid
\* true and code that compiles, for any list of objective names.
C15_TemplatePathAlwaysValid ==
    (result # NotCalled /\ implementer.llm_client = NoClient) =>
        /\ result.is_valid
        /\ result.scoring_code = _generate_from_templates(RunObjectives, <<>>)
        /\ Compiles(result.scoring_code)

\* C16: when the client call or the extraction of the code block raises, run
\* returns what the template path returns for the same state.
C16_FailureFallsBackToTemplates ==
    (result # NotCalled /\ implementer.use_llm /\ ClientFails) =>
        LET t == _generate_from_templates(RunObjectives, <<>>)
            ok == ~HasForbidden(t) /\ Compiles(t)
        IN /\ result.is_valid = ok
           /\ result.scoring_code = IF ok THEN t ELSE _fallback_scorer
           /\ result.objectives = RunObjectives

\* The client raised on a run for two objectives, and run returned their
\* template code.
C16_Witness ==
    /\ result # NotCalled
    /\ implementer.use_llm
    /\ implementer.llm_client.raises
    /\ Len(RunObjectives) = MaxObjectives
    /\ result.is_valid
    /\ result.scoring_code = _generate_from_templates(RunObjectives, <<>>)

\* The generator's client fails: the call raises or the response is None,
\* has no choice, or has a content that is no string.
GenClientFails ==
    /\ client # NoClient
    /\ \/ client.raises
       \/ client.shape \in MalformedShapes

C18_AtMostOneCall ==
    (generated # NotCalled) =>
        llm_calls = (IF client = NoClient THEN 0 ELSE 1)

\* A failed call was not repeated.
C18_Witness ==
    /\ generated # NotCalled
    /\ GenClientFails
    /\ llm_calls = 1
    /\ generated.value # <<>>

\* No line of the response carries a candidate: none starts with the marker
\* (blanks aside), or nothing but blanks follows the marker.
NoLineCarriesCandidate ==
    LET raw == IF client.shape = "chat" THEN client.text ELSE <<>> IN
    \A k \in DOMAIN raw :
        raw[k] = Marker =>
            \/ \E j \in 1..(k - 1) :
                  raw[j] \notin {" ", NL} /\ \A m \in j..k : raw[m] # NL
            \/ \A j \in (k + 1)..Len(raw) :
                  raw[j] \in {" ", NL} \/ \E m \in k..j : raw[m] = NL

\* C19: when the call succeeds and the parser keeps no candidate, generate
\* returns the empty list: it does not raise and does not fall back.
C19_EmptyWhenAllRejected ==
    (generated # NotCalled /\ client # NoClient /\ ~GenClientFails
        /\ NoLineCarriesCandidate) =>
        /\ generated.raised = ""
        /\ generated.value = <<>>

\* The response carried markers without content; candidates were asked for
\* and the population could have fed the fallback.
C19_Witness ==
    /\ generated # NotCalled
    /\ client # NoClient
    /\ ~GenClientFails
    /\ Contains(client.text, <<Marker>>)
    /\ NoLineCarriesCandidate
    /\ num_candidates > 0
    /\ population # <<>>
    /\ generated.value = <<>>

\* C20: EvoGenerator.generate returns exactly n candidates for a population
\* of at least one member and n >= 0, whatever its random choices.
C20_EvoReturnsExactlyN ==
    (generated # NotCalled /\ client = NoClient /\ Len(population) >= 1) =>
        /\ generated.raised = ""
        /\ Len(generated.value) = num_candidates

\* A population of one gave MaxNum mutated candidates; a larger one gave
\* MaxNum children: the predicate names the first.
C20_Witness ==
    /\ generated # NotCalled
    /\ client = NoClient
    /\ Len(population) = 1
    /\ num_candidates = MaxNum
    /\ Len(generated.value) = MaxNum
    /\ \A i \in DOMAIN generated.value : generated.value[i] # population[1]

\* v is c with exactly one word of the mutation vocabulary inserted before
\* one of its characters, every character of c kept in order.
InsertedOne(v, c) ==
    /\ Len(v) = Len(c) + 1
    /\ \E k \in 1..Len(c) :
          /\ \E m \in DOMAIN mutations : v[k] = mutations[m]
          /\ SubSeq(v, 1, k - 1) \o SubSeq(v, k + 1, Len(v)) = c

\* c is a population member or the crossover child of two members standing
\* at distinct positions: the first half of one, then the second half of the
\* other, each cut at its own midpoint.
BredFrom(c, pop) ==
    \/ \E i \in DOMAIN pop : c = pop[i]
    \/ \E i, j \in DOMAIN pop :
          /\ i # j
          /\ c = SubSeq(pop[i], 1, Len(pop[i]) \div 2)
                 \o SubSeq(pop[j], Len(pop[j]) \div 2 + 1, Len(pop[j]))

\* c is a crossover child that is no member of the population.
Crossed(c, pop) == BredFrom(c, pop) /\ \A i \in DOMAIN pop : c # pop[i]

\* C27: for a population of two or more, every returned candidate is a member
\* copied unchanged, a crossover child of two members at distinct positions,
\* or one of those with exactly one vocabulary word inserted; and each of the
\* four combinations of crossover and mutation is a possible candidate.
C27_EvoCandidateShapes ==
    (generated # NotCalled /\ client = NoClient /\ Len(population) >= 2) =>
        /\ \A i \in DOMAIN generated.value :
              \/ BredFrom(generated.value[i], population)
              \/ \E c \in Range(population) \cup children(population) :
                    /\ BredFrom(c, population)
                    /\ c # <<>>
                    /\ InsertedOne(generated.value[i], c)
        /\ num_candidates > 0 =>
              LET firsts == {r.value[1] : r \in EvoGenerator_generate(population, 1)}
              IN /\ \E v \in firsts : v \in Range(population)
                 /\ \E v \in firsts : Crossed(v, population)
                 /\ \E v \in firsts : \E c \in Range(population) : InsertedOne(v, c)
                 /\ \E v \in firsts : \E c \in firsts :
                       Crossed(c, population) /\ InsertedOne(v, c)

\* A call on two members returned a crossover child with a word inserted,
\* followed by a member copied unchanged.
C27_Witness ==
    /\ generated # NotCalled
    /\ client = NoClient
    /\ population = <<cand_ab, cand_cd>>
    /\ num_candidates = MaxNum
    /\ \E m \in DOMAIN mutations :
          generated.value[1] = <<"a", mutations[m], "d">>
    /\ generated.value[MaxNum] = cand_cd

\* C28: with exactly one member generate only mutates: each of the n returned
\* candidates is the member with exactly one vocabulary word inserted before
\* one of its characters, or the member itself when it is empty.
C28_SingleMemberMutationOnly ==
    (generated # NotCalled /\ client = NoClient /\ Len(population) = 1) =>
        /\ Len(generated.value) = num_candidates
        /\ \A i \in DOMAIN generated.value :
              IF population[1] = <<>>
              THEN generated.value[i] = <<>>
              ELSE InsertedOne(generated.value[i], population[1])

\* Two candidates of one member, mutated at different positions.
C28_Witness ==
    /\ generated # NotCalled
    /\ client = NoClient
    /\ population = <<cand_ab>>
    /\ num_candidates = MaxNum
    /\ generated.value[1][1] = mutations[1]
    /\ generated.value[MaxNum][2] = mutations[2]

\* C29: controllers are independent: switch_mode, add_review_stage and
\* remove_review_stage on one controller leave the mode and the review-stage
\* set of every other controller as they were, no operation changes the sets
\* of the per-mode table, and a controller constructed at any point gets the
\* original default set of its mode.
C29_InstancesIndependent ==
    [][/\ \A m \in Modes : heap'[MODE_REVIEW_STAGES[m]] = TableLiteral(m)
       /\ \A c \in Ctls :
            (last'.c = c /\ last'.op \in {"switch_mode", "add_review_stage",
                                          "remove_review_stage"}) =>
                \A d \in Ctls \ {c} :
                    /\ ctl'[d] = ctl[d]
                    /\ Constructed(d) => review_stages(d)' = review_stages(d)
       /\ \A c \in Ctls :
            (last'.c = c /\ last'.op = "__init__") =>
                review_stages(c)' = TableLiteral(ctl'[c].mode)]_vars

\* Two controllers of the same mode, the first with an edited set, and the
\* second constructed after that edit with the default set.
C29_Witness ==
    /\ Constructed(1) /\ Constructed(2)
    /\ ctl[1].mode = ctl[2].mode
    /\ review_stages(1) # TableLiteral(ctl[1].mode)
    /\ review_stages(2) = TableLiteral(ctl[2].mode)
    /\ last.op = "__init__"
    /\ last.c = 2

\* C30: a run never makes more than max_iters passes through OPTIMIZE; if no
\* review is ever cancelled and every suspension is eventually resumed, the
\* run eventually reaches TERMINATED; and a run whose controller never has a
\* review stage never suspends and reaches TERMINATED with no signal.
C30_TerminatesWhenApproved ==
    /\ [](iteration <= max_iters)
    /\ ([](~review.aborted) /\ [](phase = "suspended" => <>(phase # "suspended")))
           => <>(pc = "TERMINATED")
    /\ [](review_stages(RunCtl) = {})
           => ([](phase # "suspended") /\ <>(pc = "TERMINATED"))

\* A run that was suspended and approved on its way terminated at the
\* iteration limit without having converged.
C30_Witness ==
    /\ pc = "TERMINATED"
    /\ iteration = max_iters
    /\ reason = "max iterations"
    /\ ~_is_converged(score_history)
    /\ review_stages(RunCtl) # {}

\* The pairs select is handed: zip(candidates, scores).
Pairs(cands, score_vecs) ==
    [i \in 1..(IF Len(cands) < Len(score_vecs) THEN Len(cands) ELSE Len(score_vecs))
        |-> <<cands[i], score_vecs[i]>>]

\* The scalar of a score vector under the weights ws.
Scalar(ws, vec) ==
    IF Len(ws) = Len(vec)
    THEN IF vec = <<>> THEN 0 ELSE ws[1] * vec[1] + ws[2] * vec[2]
    ELSE IF vec = <<>> THEN 0 ELSE vec[1] + vec[2]

\* Pair a of ps comes before pair b in the order of the result.
ComesBefore(ws, ps, a, b) ==
    \/ Scalar(ws, ps[a][2]) > Scalar(ws, ps[b][2])
    \/ Scalar(ws, ps[a][2]) = Scalar(ws, ps[b][2]) /\ a < b

\* C21: select returns min(top_k, number of pairs) input pairs, each with its
\* own score vector, in non-increasing scalar, pairs of equal scalar in input
\* order, and every pair left out comes after every pair returned (top_k >= 0).
C21_SelectIsStableTopK ==
    (selected # NotCalled) =>
        LET ps == Pairs(candidates, scores)
            n  == Len(ps)
            L  == IF top_k < n THEN top_k ELSE n
        IN /\ Len(selected.value) = L
           /\ \E f \in [1..L -> 1..n] :
                 /\ \A r \in 1..L : selected.value[r] = ps[f[r]]
                 /\ \A r, q \in 1..L : r < q => ComesBefore(weights, ps, f[r], f[q])
                 /\ \A j \in (1..n) \ Range(f) :
                       \A r \in 1..L : ComesBefore(weights, ps, f[r], j)

\* Three pairs, the first and the third of the same candidate and the same
\* scalar, the second of a higher scalar under weights that differ: the
\* second is returned first, then the first, and the third is left out.
C21_Witness ==
    /\ selected # NotCalled
    /\ Len(candidates) = 3
    /\ scores = << <<1, 0>>, <<0, 1>>, <<1, 0>> >>
    /\ weights = <<1, 2>>
    /\ top_k = 2
    /\ selected.value = << <<"B", <<0, 1>>>>, <<"A", <<1, 0>>>> >>

\* Score vector a dominates b: nowhere lower and somewhere higher.
Dominates(a, b) ==
    /\ \A i \in DOMAIN a : a[i] >= b[i]
    /\ \E i \in DOMAIN a : a[i] > b[i]

\* What select returned for these pairs holds a pair that another pair
\* dominates and lacks a pair that no pair dominates.
KeepsDominatedDropsFront(ps, value) ==
    /\ \E p \in Range(value) : \E q \in Range(ps) : Dominates(q[2], p[2])
    /\ \E p \in Range(ps) \ Range(value) :
          \A q \in Range(ps) : ~Dominates(q[2], p[2])

\* C22: select is no Pareto-front extraction: a selector that has not been
\* called yet can be handed candidates, scores, weights and a top_k for which
\* it returns a dominated candidate and leaves out a candidate that none
\* dominates.
C22_NotParetoFront ==
    (selected = NotCalled) =>
        \E score_vecs \in [1..MaxPairs -> ScoreVectors], ws \in WeightLists,
           k \in 1..MaxPairs :
            KeepsDominatedDropsFront(
                Pairs(SubSeq(CandidateNames, 1, MaxPairs), score_vecs),
                ParetoSelector_select(SubSeq(CandidateNames, 1, MaxPairs),
                                      score_vecs, ws, k))

\* A call that returned a dominated candidate and left out one of the front.
C22_Witness ==
    /\ selected # NotCalled
    /\ top_k >= 1
    /\ Len(weights) = 2
    /\ KeepsDominatedDropsFront(Pairs(candidates, scores), selected.value)

\* One of the keywords is a word of the math-keyword list.
MatchesMath(kws) == Range(kws) \cap Range(math_keywords) # {}

\* C26: every get_strategy call, whatever calls came before it, returns
\* MathStrategy when one of its keywords is a word of the math-keyword list
\* and GeneralStrategy otherwise, and leaves the router as it was.
C26_StrategyIsFunctionOfKeywords ==
    [][/\ router' = router
       /\ router = PromptRouter
       /\ strategy' = IF MatchesMath(keywords') THEN MathStrategy ELSE GeneralStrategy]_vars

\* The second of two keywords is a word of the list, in its non-ASCII half,
\* and the first is a near miss: the call returned MathStrategy.
C26_Witness ==
    /\ keywords = <<"Math", "[gongshi]">>
    /\ strategy = MathStrategy
    /\ router = PromptRouter

\* A line starts with the marker, blanks before it aside.
StartsWithMarker(line) == startswith(strip(line), <<Marker>>)

\* The text that follows the first marker of a line, blanks around it aside.
Following(line) == strip(split_once(line, <<Marker>>)[2])

\* The lines of the output handed to the parser.
OutputLines == split(raw_output, <<NL>>)

\* The statement of C25 as it stands: one entry for every line that starts
\* with the marker, the text that follows it, cut to the first expected.
C25_EntryForEveryMarkedLine ==
    (parsed # NotCalled /\ strategy = GeneralStrategy) =>
        LET marked == SelectSeq(OutputLines, StartsWithMarker)
        IN parsed.value
               = take([i \in 1..Len(marked) |-> Following(marked[i])], expected_n)

\* C25: GeneralStrategy.parse_candidates returns, in input order, the text
\* that follows the marker, blanks around it aside, of each line that starts
\* with the marker and has such a text; a marked line with nothing or only
\* blanks after the marker gives no entry, like a line without the marker at
\* its start; the result is cut to the first expected entries.
C25_MarkedLinesWithText ==
    (parsed # NotCalled /\ strategy = GeneralStrategy) =>
        LET HasText(line) == StartsWithMarker(line) /\ Following(line) # <<>>
            kept == SelectSeq(OutputLines, HasText)
        IN /\ parsed.value
                  = take([i \in 1..Len(kept) |-> Following(kept[i])], expected_n)
           /\ Len(parsed.value) <= expected_n
           /\ \A i \in DOMAIN parsed.value :
                 \E l \in DOMAIN OutputLines :
                     /\ StartsWithMarker(OutputLines[l])
                     /\ parsed.value[i] = Following(OutputLines[l])

\* Two lines, the first with the marker alone and the second with a text
\* after it, and one candidate expected: the parser returned the text of the
\* second line.
C25_Witness ==
    /\ parsed # NotCalled
    /\ strategy = GeneralStrategy
    /\ raw_output = <<Marker, NL, Marker, " ", "alpha">>
    /\ expected_n = 1
    /\ parsed.value = << <<"alpha">> >>

\* A candidate meets the four filters: at most 100 characters, at most 3
\* commas, at most 4 open parentheses, characters of the allow-list only, and
\* no blocked word in any case.
MeetsFilters(c) ==
    /\ Len(c) <= 100
    /\ count(c, ",") <= 3
    /\ count(c, "(") <= 4
    /\ Range(c) \subseteq allowed_pattern
    /\ \A w \in DOMAIN blocked_words : ~Contains(lower(c), blocked_words[w])

\* C23: every candidate MathStrategy.parse_candidates returns meets all the
\* filters at once, and it returns at most expected candidates.
C23_ReturnedMeetAllFilters ==
    (parsed # NotCalled /\ strategy = MathStrategy) =>
        /\ \A i \in DOMAIN parsed.value : MeetsFilters(parsed.value[i])
        /\ Len(parsed.value) <= expected_n

\* A FORMULA: line with a blocked word in capitals, then a line the filters
\* pass: the parser returned the second alone.
C23_Witness ==
    /\ parsed # NotCalled
    /\ strategy = MathStrategy
    /\ Len(OutputLines) = 2
    /\ startswith(OutputLines[1], FORMULA)
    /\ ~Contains(OutputLines[1], blocked_words[1])
    /\ Contains(lower(OutputLines[1]), blocked_words[1])
    /\ Len(parsed.value) = 1
    /\ Contains(OutputLines[2], parsed.value[1])

\* The expression of a line of the form FORMULA: e, N. e or N. FORMULA: e,
\* blanks around it aside; empty for a line of no such form.
ExpressionOf(line) ==
    LET clean == strip(line)
        item  == strip(SubSeq(clean, list_marker(clean) + 1, Len(clean)))
    IN IF startswith(clean, FORMULA) THEN strip(split_once(clean, FORMULA)[2])
       ELSE IF list_marker(clean) = 0 THEN <<>>
       ELSE IF startswith(item, FORMULA) THEN strip(split_once(item, FORMULA)[2])
       ELSE item

\* The line is a list item: N. e or N. FORMULA: e.
IsListItem(line) ==
    ~startswith(strip(line), FORMULA) /\ list_marker(strip(line)) # 0

\* The statement of C24 as it stands: the expression of every line of one of
\* the three forms that meets the filters, in input order, cut to the first
\* expected.
C24_EveryFormExtracted ==
    (parsed # NotCalled /\ strategy = MathStrategy) =>
        LET Kept(line) == ExpressionOf(line) # <<>> /\ MeetsFilters(ExpressionOf(line))
            kept == SelectSeq(OutputLines, Kept)
        IN parsed.value
               = take([i \in 1..Len(kept) |-> ExpressionOf(kept[i])], expected_n)

\* C24: MathStrategy.parse_candidates returns, in input order and cut to the
\* first expected, the expression of every line of one of the three forms
\* that meets the filters, where the expression of a list item counts only
\* if it holds one of + - * / or the letter x; a line of no such form
\* contributes nothing.
C24_FormsWithOperatorExtracted ==
    (parsed # NotCalled /\ strategy = MathStrategy) =>
        LET Kept(line) ==
                /\ ExpressionOf(line) # <<>>
                /\ MeetsFilters(ExpressionOf(line))
                /\ IsListItem(line) =>
                       Range(ExpressionOf(line)) \cap {"+", "-", "*", "/", "x"} # {}
            kept == SelectSeq(OutputLines, Kept)
        IN parsed.value
               = take([i \in 1..Len(kept) |-> ExpressionOf(kept[i])], expected_n)

\* The first two lines of the test, a list item and a list item with
\* FORMULA:, gave their two expressions as they stand, in that order.
C24_Witness ==
    /\ parsed # NotCalled
    /\ strategy = MathStrategy
    /\ Len(OutputLines) = 2
    /\ IsListItem(OutputLines[1]) /\ ~Contains(OutputLines[1], FORMULA)
    /\ IsListItem(OutputLines[2]) /\ Contains(OutputLines[2], FORMULA)
    /\ parsed.value = <<SubSeq(OutputLines[1], 4, Len(OutputLines[1])),
                        SubSeq(OutputLines[2], 13, Len(OutputLines[2]))>>

=============================================================================
